---- MODULE Spec2Model ----
(***************************************************************************)
(* A model of MegaCluster (src/src/index.ts): the registry of active and   *)
(* frozen pools, the selection of a pool per request, the failure-event    *)
(* handlers, the store of pending connections, and remove / shutdown.      *)
(*                                                                         *)
(* Pool names and patterns are sequences of one-character strings, so that *)
(* toRegex and RegExp.test are computed and not assumed.                   *)
(***************************************************************************)
EXTENDS Integers, Sequences, FiniteSets, TLC

(***************************************************************************)
(* Bounds of the model.                                                    *)
(***************************************************************************)
\* number of MegaClusterPool objects the environment holds
MaxPools == 3
\* times add() is driven to register each pool object
MaxAdds == 1
\* remove / closePendingConnections / shutdown calls in flight at once
MaxCalls == 2
\* longest pending store the events are driven to
MaxPending == 1
\* longest warnings list the events are driven to
MaxWarnings == 1
\* warnings the events are driven to where the events are what is examined
MaxEvents == 3

PoolIds == 1..MaxPools
ConnIds == 1..MaxPending
CallIds == 1..MaxCalls
EventConns == 1..MaxEvents

(***************************************************************************)
(* Names: new MegaClusterPool(name, driver) accepts any string.  The       *)
(* environment constructs two pools under the same name "a+b" and one      *)
(* under "b".                                                              *)
(***************************************************************************)
NameList == << <<"a", "+", "b">>, <<"a", "+", "b">>, <<"b">> >>

PoolName(p) == NameList[((p - 1) % Len(NameList)) + 1]

(***************************************************************************)
(* Patterns handed to the cluster: undefined, a string, a RegExp, or a     *)
(* value of another type.                                                  *)
(***************************************************************************)
Undef == [t |-> "undef", s |-> <<>>]
Str(s) == [t |-> "str", s |-> s]
Re(s) == [t |-> "re", s |-> s]
BadPat == [t |-> "bad", s |-> <<>>]

NamePatterns == {Str(PoolName(p)) : p \in PoolIds}

Patterns ==
  NamePatterns \cup {Str(<<"*">>), Str(<<"a", "*">>), Re(<<"^", "b">>), BadPat}

isStr(x) == x.t = "str"
isRegex(x) == x.t = "re"
isUndefined(x) == x.t = "undef"

(***************************************************************************)
(* String.prototype.replace(/\*/, '.*'): only the first '*' is replaced.   *)
(***************************************************************************)
RECURSIVE ReplaceFirstStar(_)
ReplaceFirstStar(s) ==
  IF s = <<>> THEN <<>>
  ELSE IF Head(s) = "*" THEN <<".", "*">> \o Tail(s)
  ELSE <<Head(s)>> \o ReplaceFirstStar(Tail(s))

(***************************************************************************)
(* new RegExp(source) for the syntax the model's strings can produce:      *)
(* literal characters, '.', the assertions '^' and '$', and the            *)
(* quantifiers '*' and '+' applied to the atom before them.  A quantifier  *)
(* with nothing to repeat is a SyntaxError.                                *)
(***************************************************************************)
Quantifiers == {"*", "+"}
Assertions == {"^", "$"}
SyntaxError == <<[a |-> "error", q |-> "1"]>>

RECURSIVE Compile(_)
Compile(src) ==
  IF src = <<>> THEN <<>>
  ELSE IF Head(src) \in Quantifiers THEN SyntaxError
  ELSE LET quantified == Len(src) >= 2 /\ src[2] \in Quantifiers
           rest == Compile(IF quantified THEN Tail(Tail(src)) ELSE Tail(src))
       IN IF rest = SyntaxError \/ (quantified /\ Head(src) \in Assertions)
          THEN SyntaxError
          ELSE <<[a |-> Head(src), q |-> IF quantified THEN src[2] ELSE "1"]>> \o rest

AtomOk(a, c) == a = "." \/ a = c

RECURSIVE MatchFrom(_, _, _, _), StarFrom(_, _, _, _)
MatchFrom(items, k, s, i) ==
  IF k > Len(items) THEN TRUE
  ELSE LET it == items[k] IN
    CASE it.a = "^" -> i = 1 /\ MatchFrom(items, k + 1, s, i)
      [] it.a = "$" -> i = Len(s) + 1 /\ MatchFrom(items, k + 1, s, i)
      [] it.q = "1" /\ it.a \notin Assertions ->
           i <= Len(s) /\ AtomOk(it.a, s[i]) /\ MatchFrom(items, k + 1, s, i + 1)
      [] it.q = "*" -> StarFrom(items, k, s, i)
      [] it.q = "+" ->
           i <= Len(s) /\ AtomOk(it.a, s[i]) /\ StarFrom(items, k, s, i + 1)

StarFrom(items, k, s, i) ==
  \/ MatchFrom(items, k + 1, s, i)
  \/ i <= Len(s) /\ AtomOk(items[k].a, s[i]) /\ StarFrom(items, k, s, i + 1)

\* RegExp.prototype.test: unanchored search
Test(items, s) == \E i \in 1..(Len(s) + 1) : MatchFrom(items, 1, s, i)

toRegex(name) ==
  IF isStr(name) THEN Compile(ReplaceFirstStar(name.s)) ELSE Compile(name.s)

\* the outcome of regex.test(pool.name) for every pattern and pool of the model
TestTable ==
  [pat \in Patterns \ {BadPat} |->
     [p \in PoolIds |-> Test(toRegex(pat), PoolName(p))]]

\* match(toRegex(name), list)
match(pat, list) == SelectSeq(list, LAMBDA p : TestTable[pat][p])

(***************************************************************************)
(* State of one MegaCluster and of the calls in flight on it.              *)
(***************************************************************************)
VARIABLES
  pools,               \* this.pools: the active list
  frozen,              \* this.frozen
  mode,                \* this.mode
  warnings,            \* this.warnings
  PendingConnections,  \* this.PendingConnections
  closed,              \* the fields are null and the methods replaced
  listeners,           \* handler sets this cluster registered on each pool
  down,                \* the pools an observer of the pools has seen shut down
  logger,              \* this.logger
  writes,              \* logger.log promises not settled yet
  calls,               \* remove / closePendingConnections calls awaiting allSettled
  ret                  \* the outcome of the last call that returned or settled

vars ==
  <<pools, frozen, mode, warnings, PendingConnections, closed, listeners, down,
    logger, writes, calls, ret>>

ORDER_MODE == "ORDER_MODE"
RANDOM_MODE == "RANDOM_MODE"

\* a call awaiting Promise.allSettled: items are the pools (remove) or the
\* connections (closePendingConnections) the promises were created from
Call(kind, shutdown, force, items) ==
  [kind |-> kind, shutdown |-> shutdown, force |-> force, items |-> items]

NoCall == Call("none", FALSE, FALSE, <<>>)

\* what the last call returned, threw or settled with: pool is the pool
\* get.pool returned (request delegated to) or the connection whose close
\* error closePendingConnections rejected with, names the pools a rejected
\* remove names
Ret(op, pool, out, names) ==
  [op |-> op, pool |-> pool, out |-> out, names |-> names]

\* nobody follows the pools / an observer notes every pool whose shutdown()
\* promise has resolved
Unwatched == [watch |-> FALSE, pools |-> {}]
Watched(set) == [watch |-> TRUE, pools |-> set]

\* constructor with no pools; mode defaults to ORDER_MODE
Constructed ==
  /\ pools = <<>>
  /\ frozen = <<>>
  /\ mode = ORDER_MODE
  /\ warnings = <<>>
  /\ PendingConnections = <<>>
  /\ closed = FALSE
  /\ listeners = [p \in PoolIds |-> 0]
  /\ logger = "none"
  /\ writes = 0
  /\ calls = [c \in CallIds |-> NoCall]
  /\ ret = Ret("new", 0, "ok", <<>>)

Init == Constructed /\ down = Unwatched

\* the same cluster with an observer on its pools
InitWatched == Constructed /\ down = Watched({})

\* Array.prototype.includes
includes(list, x) == \E i \in 1..Len(list) : list[i] = x

\* has.active(name) / has.frozen(name) with a name given
hasActive(pat) == match(pat, pools) # <<>>
hasFrozen(pat) == match(pat, frozen) # <<>>

(***************************************************************************)
(* add(pool)                                                               *)
(***************************************************************************)
AddConflict(p) == hasActive(Str(PoolName(p))) \/ hasFrozen(Str(PoolName(p)))

\* add without `this.add = fail` in shutdown: on a closed cluster the body
\* runs and this.has is null
AddNotReplaced(p) ==
  /\ UNCHANGED <<frozen, mode, warnings, PendingConnections, closed, down, logger, writes, calls>>
  /\ IF closed
     THEN /\ ret' = Ret("add", 0, "TypeError", <<>>)
          /\ UNCHANGED <<pools, listeners, down>>
     ELSE IF AddConflict(p)
     THEN /\ ret' = Ret("add", 0, "conflict", <<>>)
          /\ UNCHANGED <<pools, listeners, down>>
     ELSE /\ listeners' = [listeners EXCEPT ![p] = @ + 1]
          /\ pools' = Append(pools, p)
          /\ ret' = Ret("add", 0, "ok", <<>>)

Add(p) ==
  /\ UNCHANGED <<frozen, mode, warnings, PendingConnections, closed, down, logger, writes, calls>>
  /\ IF closed
     THEN /\ ret' = Ret("add", 0, "terminal", <<>>)
          /\ UNCHANGED <<pools, listeners, down>>
     ELSE IF AddConflict(p)
     THEN /\ ret' = Ret("add", 0, "conflict", <<>>)
          /\ UNCHANGED <<pools, listeners, down>>
     ELSE /\ listeners' = [listeners EXCEPT ![p] = @ + 1]
          /\ pools' = Append(pools, p)
          /\ ret' = Ret("add", 0, "ok", <<>>)

\* add(x) with x not a MegaClusterPool
AddInvalid ==
  /\ ret' = Ret("add", 0, IF closed THEN "terminal" ELSE "invalid", <<>>)
  /\ UNCHANGED <<pools, frozen, mode, warnings, PendingConnections, closed, listeners, down, logger, writes, calls>>

(***************************************************************************)
(* freeze(name) / unfreeze(name).  Neither is replaced by shutdown: on a   *)
(* closed cluster this.pools is null and iterating or pushing to it is a   *)
(* TypeError.                                                              *)
(***************************************************************************)
Without(list, removed) == SelectSeq(list, LAMBDA q : ~includes(removed, q))

\* freeze with this.frozen.unshift(...pools): the pools are put in front
FreezeUnshift(pat) ==
  /\ UNCHANGED <<mode, warnings, PendingConnections, closed, listeners, down, logger, writes, calls>>
  /\ IF ~isStr(pat) /\ ~isRegex(pat)
     THEN /\ ret' = Ret("freeze", 0, "invalid", <<>>)
          /\ UNCHANGED <<pools, frozen>>
     ELSE IF closed
     THEN /\ ret' = Ret("freeze", 0, "TypeError", <<>>)
          /\ UNCHANGED <<pools, frozen>>
     ELSE LET matched == match(pat, pools) IN
          IF matched = <<>>
          THEN /\ ret' = Ret("freeze", 0, "notfound", <<>>)
               /\ UNCHANGED <<pools, frozen>>
          ELSE /\ pools' = Without(pools, matched)
               /\ frozen' = matched \o frozen
               /\ ret' = Ret("freeze", 0, "ok", <<>>)

Freeze(pat) ==
  /\ UNCHANGED <<mode, warnings, PendingConnections, closed, listeners, down, logger, writes, calls>>
  /\ IF ~isStr(pat) /\ ~isRegex(pat)
     THEN /\ ret' = Ret("freeze", 0, "invalid", <<>>)
          /\ UNCHANGED <<pools, frozen>>
     ELSE IF closed
     THEN /\ ret' = Ret("freeze", 0, "TypeError", <<>>)
          /\ UNCHANGED <<pools, frozen>>
     ELSE LET matched == match(pat, pools) IN
          IF matched = <<>>
          THEN /\ ret' = Ret("freeze", 0, "notfound", <<>>)
               /\ UNCHANGED <<pools, frozen>>
          ELSE /\ pools' = Without(pools, matched)
               /\ frozen' = frozen \o matched
               /\ ret' = Ret("freeze", 0, "ok", <<>>)

\* unfreeze matching the whole registry ([...this.pools, ...this.frozen])
\* instead of this.frozen
UnfreezeMatchesAll(pat) ==
  /\ UNCHANGED <<mode, warnings, PendingConnections, closed, listeners, down, logger, writes, calls>>
  /\ IF ~isStr(pat) /\ ~isRegex(pat)
     THEN /\ ret' = Ret("unfreeze", 0, "invalid", <<>>)
          /\ UNCHANGED <<pools, frozen>>
     ELSE LET matched == match(pat, pools \o frozen) IN
          IF matched = <<>>
          THEN /\ ret' = Ret("unfreeze", 0, "notfound", <<>>)
               /\ UNCHANGED <<pools, frozen>>
          ELSE IF closed
          THEN /\ frozen' = Without(frozen, matched)
               /\ ret' = Ret("unfreeze", 0, "TypeError", <<>>)
               /\ UNCHANGED pools
          ELSE /\ frozen' = Without(frozen, matched)
               /\ pools' = pools \o matched
               /\ ret' = Ret("unfreeze", 0, "ok", <<>>)

Unfreeze(pat) ==
  /\ UNCHANGED <<mode, warnings, PendingConnections, closed, listeners, down, logger, writes, calls>>
  /\ IF ~isStr(pat) /\ ~isRegex(pat)
     THEN /\ ret' = Ret("unfreeze", 0, "invalid", <<>>)
          /\ UNCHANGED <<pools, frozen>>
     ELSE LET matched == match(pat, frozen) IN
          IF matched = <<>>
          THEN /\ ret' = Ret("unfreeze", 0, "notfound", <<>>)
               /\ UNCHANGED <<pools, frozen>>
          ELSE IF closed
          THEN \* this.frozen is reassigned, then this.pools.push throws
               /\ frozen' = Without(frozen, matched)
               /\ ret' = Ret("unfreeze", 0, "TypeError", <<>>)
               /\ UNCHANGED pools
          ELSE /\ frozen' = Without(frozen, matched)
               /\ pools' = pools \o matched
               /\ ret' = Ret("unfreeze", 0, "ok", <<>>)

(***************************************************************************)
(* get.pool(name?): the selection.  getPool is the function of the active  *)
(* list, the mode, the argument and the index randomBetween returns; its   *)
(* value is what is thrown or returned and the active list afterwards.     *)
(***************************************************************************)
Sel(out, pool, list) == [out |-> out, pool |-> pool, pools |-> list]

\* this.pools.filter((pool) => $pool.name !== pool.name)
WithoutName(list, p) == SelectSeq(list, LAMBDA q : PoolName(p) # PoolName(q))

\* get.pool without `if (isEmptyArr(pools)) throw ...` after the match: the
\* head of an empty array is undefined and `$pool.name` throws a TypeError
getPoolNoMatchCheck(list, m, pat, index) ==
  IF list = <<>> THEN Sel("notfound", 0, list)
  ELSE IF isUndefined(pat)
  THEN IF m = RANDOM_MODE
       THEN Sel("ok", list[index + 1], list)
       ELSE Sel("ok", Head(list), Append(Tail(list), Head(list)))
  ELSE IF ~isStr(pat) /\ ~isRegex(pat) THEN Sel("invalid", 0, list)
  ELSE LET matched == match(pat, list) IN
    IF matched = <<>> THEN Sel("TypeError", 0, list)
    ELSE IF Len(matched) = 1 THEN Sel("ok", matched[1], list)
    ELSE IF m = RANDOM_MODE THEN Sel("ok", matched[index + 1], list)
    ELSE Sel("ok", Head(matched), Append(WithoutName(list, Head(matched)), Head(matched)))

\* get.pool whose Random branch for a name indexes this.pools instead of
\* the matching pools
getPoolRandomOfList(list, m, pat, index) ==
  IF list = <<>> THEN Sel("notfound", 0, list)
  ELSE IF isUndefined(pat)
  THEN IF m = RANDOM_MODE
       THEN Sel("ok", list[index + 1], list)
       ELSE Sel("ok", Head(list), Append(Tail(list), Head(list)))
  ELSE IF ~isStr(pat) /\ ~isRegex(pat) THEN Sel("invalid", 0, list)
  ELSE LET matched == match(pat, list) IN
    IF matched = <<>> THEN Sel("notfound", 0, list)
    ELSE IF Len(matched) = 1 THEN Sel("ok", matched[1], list)
    ELSE IF m = RANDOM_MODE THEN Sel("ok", list[index + 1], list)
    ELSE Sel("ok", Head(matched), Append(WithoutName(list, Head(matched)), Head(matched)))

\* get.pool without the shift/push of the no-name branch: the head is returned
\* and stays the head
getPoolNoShift(list, m, pat, index) ==
  IF list = <<>> THEN Sel("notfound", 0, list)
  ELSE IF isUndefined(pat)
  THEN IF m = RANDOM_MODE
       THEN Sel("ok", list[index + 1], list)
       ELSE Sel("ok", Head(list), list)
  ELSE IF ~isStr(pat) /\ ~isRegex(pat) THEN Sel("invalid", 0, list)
  ELSE LET matched == match(pat, list) IN
    IF matched = <<>> THEN Sel("notfound", 0, list)
    ELSE IF Len(matched) = 1 THEN Sel("ok", matched[1], list)
    ELSE IF m = RANDOM_MODE THEN Sel("ok", matched[index + 1], list)
    ELSE Sel("ok", Head(matched), Append(WithoutName(list, Head(matched)), Head(matched)))

getPool(list, m, pat, index) ==
  IF list = <<>> THEN Sel("notfound", 0, list)
  ELSE IF isUndefined(pat)
  THEN IF m = RANDOM_MODE
       THEN Sel("ok", list[index + 1], list)
       ELSE Sel("ok", Head(list), Append(Tail(list), Head(list)))
  ELSE IF ~isStr(pat) /\ ~isRegex(pat) THEN Sel("invalid", 0, list)
  ELSE LET matched == match(pat, list) IN
    IF matched = <<>> THEN Sel("notfound", 0, list)
    ELSE IF Len(matched) = 1 THEN Sel("ok", matched[1], list)
    ELSE IF m = RANDOM_MODE THEN Sel("ok", matched[index + 1], list)
    ELSE Sel("ok", Head(matched), Append(WithoutName(list, Head(matched)), Head(matched)))

\* the values randomBetween(0, length - 1) can return where get.pool calls it
RandomIndexes(list, m, pat) ==
  IF m # RANDOM_MODE \/ list = <<>> THEN {0}
  ELSE IF isUndefined(pat) THEN 0..(Len(list) - 1)
  ELSE IF ~isStr(pat) /\ ~isRegex(pat) THEN {0}
  ELSE IF Len(match(pat, list)) < 2 THEN {0}
  ELSE 0..(Len(match(pat, list)) - 1)

\* cluster.get.pool(name): this.get is null on a closed cluster
GetPool(pat) ==
  /\ UNCHANGED <<frozen, mode, warnings, PendingConnections, closed, listeners, down, logger, writes, calls>>
  /\ IF closed
     THEN /\ ret' = Ret("get.pool", 0, "TypeError", <<>>)
          /\ UNCHANGED pools
     ELSE \E index \in RandomIndexes(pools, mode, pat) :
            LET r == getPool(pools, mode, pat, index) IN
              /\ pools' = r.pools
              /\ ret' = Ret("get.pool", r.pool, r.out, <<>>)

\* cluster.request(name): get.pool(name).request(); a throw of get.pool
\* rejects, otherwise the selected pool's request() is invoked
Request(pat) ==
  /\ UNCHANGED <<frozen, mode, warnings, PendingConnections, closed, listeners, down, logger, writes, calls>>
  /\ IF closed
     THEN /\ ret' = Ret("request", 0, "terminal", <<>>)
          /\ UNCHANGED pools
     ELSE \E index \in RandomIndexes(pools, mode, pat) :
            LET r == getPool(pools, mode, pat, index) IN
              /\ pools' = r.pools
              /\ ret' = Ret("request", r.pool,
                            IF r.out = "ok" THEN "delegated" ELSE r.out, <<>>)

\* set.mode(type): this.set is null on a closed cluster
SetMode(type) ==
  /\ UNCHANGED <<pools, frozen, warnings, PendingConnections, closed, listeners, down, logger, writes, calls>>
  /\ IF closed
     THEN /\ ret' = Ret("set.mode", 0, "TypeError", <<>>)
          /\ UNCHANGED mode
     ELSE IF type \notin {RANDOM_MODE, ORDER_MODE}
     THEN /\ ret' = Ret("set.mode", 0, "invalid", <<>>)
          /\ UNCHANGED mode
     ELSE /\ mode' = type
          /\ ret' = Ret("set.mode", 0, "ok", <<>>)

\* set.logger(instance): instance is a Logger ("logger") or anything else
SetLogger(instance) ==
  /\ UNCHANGED <<pools, frozen, mode, warnings, PendingConnections, closed, listeners, down, writes, calls>>
  /\ IF closed
     THEN /\ ret' = Ret("set.logger", 0, "TypeError", <<>>)
          /\ UNCHANGED logger
     ELSE IF instance # "logger"
     THEN /\ ret' = Ret("set.logger", 0, "invalid", <<>>)
          /\ UNCHANGED logger
     ELSE /\ logger' = instance
          /\ ret' = Ret("set.logger", 0, "ok", <<>>)

\* has.logger(): this.has is null on a closed cluster
HasLogger ==
  /\ UNCHANGED <<pools, frozen, mode, warnings, PendingConnections, closed, listeners, down, logger, writes, calls>>
  /\ ret' = Ret("has.logger", 0,
                IF closed THEN "TypeError"
                ELSE IF logger # "none" THEN "true" ELSE "false", <<>>)

(***************************************************************************)
(* The asynchronous calls.  A call that has to await takes a slot of       *)
(* calls and holds the list its promises were created from.  The cluster   *)
(* reads the outcomes only in the callback of Promise.allSettled, so one   *)
(* step gives every promise of the call its outcome and runs the callback. *)
(***************************************************************************)
FreeCalls == {c \in CallIds : calls[c].kind = "none"}
NewCall == CHOOSE c \in FreeCalls : \A d \in FreeCalls : c <= d

RECURSIVE ItemsWith(_, _, _, _)
ItemsWith(items, results, status, i) ==
  IF i > Len(items) THEN <<>>
  ELSE (IF results[i] = status THEN <<items[i]>> ELSE <<>>)
       \o ItemsWith(items, results, status, i + 1)

Names(list) == [i \in 1..Len(list) |-> PoolName(list[i])]

isBool(force) == force \in {"true", "false"}
Forces == {"true", "false", "yes"}

\* closePendingConnections without `if (!isBool(force)) force = false`
CoerceNothing(force) == force

\* if (!isBool(force)) force = false
Coerce(force) == IF isBool(force) THEN force ELSE "false"
\* if (force): a non-empty string is truthy
Truthy(force) == force \in {"true", "yes"}

\* the then-callback of shutdown: every field is set to null (this.frozen is
\* not) and add, remove, request, shutdown, closePendingConnections replaced
Finalize(c) ==
  /\ pools' = <<>>
  /\ warnings' = <<>>
  /\ PendingConnections' = <<>>
  /\ mode' = "null"
  /\ logger' = "none"
  /\ closed' = TRUE
  /\ calls' = [calls EXCEPT ![c] = NoCall]
  /\ ret' = Ret("shutdown", 0, "ok", <<>>)
  /\ UNCHANGED <<frozen, listeners, writes>>

\* a call settles without closing the cluster
Settle(c, r, newPools, newPending) ==
  /\ pools' = newPools
  /\ PendingConnections' = newPending
  /\ calls' = [calls EXCEPT ![c] = NoCall]
  /\ ret' = r
  /\ UNCHANGED <<frozen, mode, warnings, closed, listeners, logger, writes>>

\* the body of closePendingConnections(force) on a live cluster; newPools is
\* the active list remove('*') left when the call comes from shutdown
StartClose(c, force, shutdown, newPools) ==
  LET op == IF shutdown THEN "shutdown" ELSE "closePendingConnections" IN
  IF PendingConnections = <<>>
  THEN IF shutdown THEN Finalize(c)
       ELSE Settle(c, Ret(op, 0, "ok", <<>>), newPools, PendingConnections)
  ELSE /\ calls' = [calls EXCEPT ![c] =
                      Call("close", shutdown, Truthy(Coerce(force)),
                           PendingConnections)]
       /\ pools' = newPools
       /\ UNCHANGED <<frozen, mode, warnings, PendingConnections, closed, listeners,
                      logger, writes, ret>>

\* the callback resolving whatever the outcomes: a shutdown goes on to
\* closePendingConnections after a pool's shutdown failed
RemoveThenAlwaysResolve(c, results) ==
  LET call == calls[c]
      op == IF call.shutdown THEN "shutdown" ELSE "remove"
      resolved == ItemsWith(call.items, results, "fulfilled", 1)
      newPools == Without(pools, resolved)
  IN IF closed
     THEN Settle(c, Ret(op, 0, "never", <<>>), pools, PendingConnections)
     ELSE IF call.shutdown
     THEN StartClose(c, IF call.force THEN "true" ELSE "false", TRUE, newPools)
     ELSE Settle(c, Ret(op, 0, "ok", <<>>), newPools, PendingConnections)

\* the callback of Promise.allSettled(promises).then in remove
RemoveThen(c, results) ==
  LET call == calls[c]
      op == IF call.shutdown THEN "shutdown" ELSE "remove"
      resolved == ItemsWith(call.items, results, "fulfilled", 1)
      rejected == ItemsWith(call.items, results, "rejected", 1)
      newPools == Without(pools, resolved)
  IN IF closed
     THEN \* this.pools is null: the callback throws and the call never settles
          Settle(c, Ret(op, 0, "never", <<>>), pools, PendingConnections)
     ELSE IF rejected # <<>>
     THEN Settle(c, Ret(op, 0, IF call.shutdown THEN "ShutdownError" ELSE "rejected",
                        Names(rejected)), newPools, PendingConnections)
     ELSE IF call.shutdown
     THEN StartClose(c, IF call.force THEN "true" ELSE "false", TRUE, newPools)
     ELSE Settle(c, Ret(op, 0, "ok", <<>>), newPools, PendingConnections)

\* remove without the isStr / isRegex test: toRegex hands the value on and
\* regex.test is not a function
RemoveNoValidation(pat) ==
  LET bad == ~isStr(pat) /\ ~isRegex(pat)
      matched == IF bad THEN <<>> ELSE match(pat, pools \o frozen)
  IN IF closed \/ bad \/ matched = <<>>
     THEN /\ ret' = Ret("remove", 0,
                        IF closed THEN "terminal"
                        ELSE IF bad /\ pools \o frozen # <<>> THEN "TypeError" ELSE "ok", <<>>)
          /\ UNCHANGED <<pools, frozen, mode, warnings, PendingConnections, closed,
                         listeners, down, logger, writes, calls>>
     ELSE /\ FreeCalls # {}
          /\ calls' = [calls EXCEPT ![NewCall] =
                         Call("remove", FALSE, FALSE, matched)]
          /\ UNCHANGED <<pools, frozen, mode, warnings, PendingConnections, closed,
                         listeners, down, logger, writes, ret>>

\* remove without `if (isEmptyArr(pools)) return resolve()`: Promise.allSettled
\* is awaited on an empty list of promises
RemoveNoEarlyResolve(pat) ==
  LET matched == match(pat, pools \o frozen) IN
  IF closed \/ (~isStr(pat) /\ ~isRegex(pat))
  THEN /\ ret' = Ret("remove", 0, IF closed THEN "terminal" ELSE "invalid", <<>>)
       /\ UNCHANGED <<pools, frozen, mode, warnings, PendingConnections, closed,
                      listeners, down, logger, writes, calls>>
  ELSE /\ FreeCalls # {}
       /\ calls' = [calls EXCEPT ![NewCall] =
                      Call("remove", FALSE, FALSE, matched)]
       /\ UNCHANGED <<pools, frozen, mode, warnings, PendingConnections, closed,
                      listeners, down, logger, writes, ret>>

\* remove(name)
Remove(pat) ==
  LET matched == match(pat, pools \o frozen) IN
  IF closed \/ (~isStr(pat) /\ ~isRegex(pat)) \/ matched = <<>>
  THEN /\ ret' = Ret("remove", 0,
                     IF closed THEN "terminal"
                     ELSE IF ~isStr(pat) /\ ~isRegex(pat) THEN "invalid" ELSE "ok", <<>>)
       /\ UNCHANGED <<pools, frozen, mode, warnings, PendingConnections, closed,
                      listeners, down, logger, writes, calls>>
  ELSE /\ FreeCalls # {}
       /\ calls' = [calls EXCEPT ![NewCall] =
                      Call("remove", FALSE, FALSE, matched)]
       /\ UNCHANGED <<pools, frozen, mode, warnings, PendingConnections, closed,
                      listeners, down, logger, writes, ret>>

\* the pools of call c whose shutdown() promise resolved
Fulfilled(c, results) ==
  {calls[c].items[i] : i \in {j \in 1..Len(results) : results[j] = "fulfilled"}}

\* every pool.shutdown() promise of call c has settled, the i-th one as
\* results[i], and the callback of allSettled runs
SettleShutdown(c, results) ==
  /\ calls[c].kind = "remove"
  /\ Len(results) = Len(calls[c].items)
  /\ RemoveThen(c, results)
  /\ down' = IF down.watch THEN Watched(down.pools \cup Fulfilled(c, results)) ELSE down

\* the callback with the filter inverted (status === 'fulfilled'): the closed
\* connections are the ones kept
CloseThenKeepClosed(c, results) ==
  LET call == calls[c]
      op == IF call.shutdown THEN "shutdown" ELSE "closePendingConnections"
      kept == ItemsWith(PendingConnections, results, "fulfilled", 1)
      first == CHOOSE i \in 1..Len(results) :
                 /\ results[i] = "rejected"
                 /\ \A j \in 1..(i - 1) : results[j] # "rejected"
  IN IF call.force
     THEN IF call.shutdown THEN Finalize(c)
          ELSE Settle(c, Ret(op, 0, "ok", <<>>), pools, <<>>)
     ELSE IF closed \/ Len(PendingConnections) > Len(results)
     THEN Settle(c, Ret(op, 0, "never", <<>>), pools, PendingConnections)
     ELSE IF kept = <<>>
     THEN IF call.shutdown THEN Finalize(c)
          ELSE Settle(c, Ret(op, 0, "ok", <<>>), pools, kept)
     ELSE Settle(c, Ret(op, IF \E i \in 1..Len(results) : results[i] = "rejected"
                            THEN call.items[first] ELSE 0,
                        IF call.shutdown THEN "ShutdownError" ELSE "rejected", <<>>),
                 pools, kept)

\* the callback without `if (force)`: a forced call filters and rejects like
\* any other
CloseThenNoForce(c, results) ==
  LET call == calls[c]
      op == IF call.shutdown THEN "shutdown" ELSE "closePendingConnections"
      kept == ItemsWith(PendingConnections, results, "rejected", 1)
      first == CHOOSE i \in 1..Len(results) :
                 /\ results[i] = "rejected"
                 /\ \A j \in 1..(i - 1) : results[j] # "rejected"
  IN IF closed \/ Len(PendingConnections) > Len(results)
     THEN Settle(c, Ret(op, 0, "never", <<>>), pools, PendingConnections)
     ELSE IF kept = <<>>
     THEN IF call.shutdown THEN Finalize(c)
          ELSE Settle(c, Ret(op, 0, "ok", <<>>), pools, kept)
     ELSE Settle(c, Ret(op, call.items[first],
                        IF call.shutdown THEN "ShutdownError" ELSE "rejected", <<>>),
                 pools, kept)

\* the callback of Promise.allSettled(promises).then in closePendingConnections
CloseThen(c, results) ==
  LET call == calls[c]
      op == IF call.shutdown THEN "shutdown" ELSE "closePendingConnections"
      kept == ItemsWith(PendingConnections, results, "rejected", 1)
      first == CHOOSE i \in 1..Len(results) :
                 /\ results[i] = "rejected"
                 /\ \A j \in 1..(i - 1) : results[j] # "rejected"
  IN IF call.force
     THEN IF call.shutdown THEN Finalize(c)
          ELSE Settle(c, Ret(op, 0, "ok", <<>>), pools, <<>>)
     ELSE IF closed \/ Len(PendingConnections) > Len(results)
     THEN \* filter on null, or results[index] undefined: the callback throws
          Settle(c, Ret(op, 0, "never", <<>>), pools, PendingConnections)
     ELSE IF kept = <<>>
     THEN IF call.shutdown THEN Finalize(c)
          ELSE Settle(c, Ret(op, 0, "ok", <<>>), pools, kept)
     ELSE Settle(c, Ret(op, call.items[first],
                        IF call.shutdown THEN "ShutdownError" ELSE "rejected", <<>>),
                 pools, kept)

\* closePendingConnections(force)
ClosePendingConnections(force) ==
  IF closed
  THEN /\ ret' = Ret("closePendingConnections", 0, "terminal", <<>>)
       /\ UNCHANGED <<pools, frozen, mode, warnings, PendingConnections, closed,
                      listeners, down, logger, writes, calls>>
  ELSE /\ FreeCalls # {}
       /\ StartClose(NewCall, force, FALSE, pools)
       /\ UNCHANGED down

\* every con.close() promise of call c has settled, the i-th one as
\* results[i], and the callback of allSettled runs
SettleClose(c, results) ==
  /\ calls[c].kind = "close"
  /\ Len(results) = Len(calls[c].items)
  /\ CloseThen(c, results)
  /\ UNCHANGED down

\* shutdown calling this.closePendingConnections() without its argument
ShutdownDropsForce(force) ==
  LET all == Str(<<"*">>)
      matched == match(all, pools \o frozen)
  IN IF closed
     THEN /\ ret' = Ret("shutdown", 0, "terminal", <<>>)
          /\ UNCHANGED <<pools, frozen, mode, warnings, PendingConnections, closed,
                         listeners, down, logger, writes, calls>>
     ELSE /\ FreeCalls # {}
          /\ UNCHANGED down
          /\ IF matched = <<>>
             THEN StartClose(NewCall, "false", TRUE, pools)
             ELSE /\ calls' = [calls EXCEPT ![NewCall] =
                                 Call("remove", TRUE, FALSE, matched)]
                  /\ UNCHANGED <<pools, frozen, mode, warnings, PendingConnections,
                                 closed, listeners, logger, writes, ret>>

\* shutdown calling this.closePendingConnections(force) without waiting for
\* (or calling) this.remove('*')
ShutdownClosesAtOnce(force) ==
  IF closed
  THEN /\ ret' = Ret("shutdown", 0, "terminal", <<>>)
       /\ UNCHANGED <<pools, frozen, mode, warnings, PendingConnections, closed,
                      listeners, down, logger, writes, calls>>
  ELSE /\ FreeCalls # {}
       /\ UNCHANGED down
       /\ StartClose(NewCall, force, TRUE, pools)

\* shutdown(force): this.remove('*').then(() => this.closePendingConnections(force))
Shutdown(force) ==
  LET all == Str(<<"*">>)
      matched == match(all, pools \o frozen)
  IN IF closed
     THEN /\ ret' = Ret("shutdown", 0, "terminal", <<>>)
          /\ UNCHANGED <<pools, frozen, mode, warnings, PendingConnections, closed,
                         listeners, down, logger, writes, calls>>
     ELSE /\ FreeCalls # {}
          /\ UNCHANGED down
          /\ IF matched = <<>>
             THEN StartClose(NewCall, force, TRUE, pools)
             ELSE /\ calls' = [calls EXCEPT ![NewCall] =
                                 Call("remove", TRUE, Truthy(Coerce(force)),
                                      matched)]
                  /\ UNCHANGED <<pools, frozen, mode, warnings, PendingConnections,
                                 closed, listeners, logger, writes, ret>>

(***************************************************************************)
(* The handlers add() registers on a pool.  Every add of the same pool     *)
(* object registers them once more, and nothing removes them.              *)
(***************************************************************************)
CLOSE_FAIL == "CLOSE_FAIL"
Kinds ==
  {CLOSE_FAIL, "CREATE_FAIL", "MAX_CONNECTION", "MAX_QUEUE_TIME", "MAX_QUEUE_SIZE",
   "COMMIT_FAIL", "QUERY_FAIL", "ROLLBACK_FAIL", "SHUTDOWN_FAIL", "TRANSACTION_FAIL"}

\* the warning a handler formats: the failure kind and the pool's name
Warning(kind, p) == [kind |-> kind, name |-> PoolName(p)]

Repeat(x, n) == [i \in 1..n |-> x]

\* pool p emits kind (with the connection con when kind is CLOSE_FAIL); each
\* registered handler pushes the connection, calls the logger if there is one,
\* and pushes the warning.  On a closed cluster the first handler throws
\* (this.PendingConnections and this.has are null).
Emit(p, kind, con) ==
  LET n == listeners[p] IN
  /\ n > 0
  /\ IF closed
     THEN /\ ret' = Ret("emit", p, "TypeError", <<>>)
          /\ UNCHANGED <<pools, frozen, mode, warnings, PendingConnections, closed,
                         listeners, down, logger, writes, calls>>
     ELSE /\ warnings' = warnings \o Repeat(Warning(kind, p), n)
          /\ IF kind = CLOSE_FAIL
             THEN PendingConnections' = PendingConnections \o Repeat(con, n)
             ELSE UNCHANGED PendingConnections
          /\ writes' = IF logger # "none" THEN writes + n ELSE writes
          /\ UNCHANGED <<pools, frozen, mode, closed, listeners, down, logger, calls, ret>>

\* the warning the catch of logger.log pushes
LOG_FAIL == "LOG_FAIL"
LogWarning == [kind |-> LOG_FAIL, name |-> <<>>]

\* one logger.log(message) promise settles; a rejection runs the catch, which
\* pushes a warning (on a closed cluster this.warnings is null and the catch
\* throws: the promise the catch returns rejects and nothing handles it)
LogSettle(outcome) ==
  /\ writes > 0
  /\ writes' = writes - 1
  /\ warnings' = IF outcome = "rejected" /\ ~closed
                 THEN Append(warnings, LogWarning) ELSE warnings
  /\ ret' = IF outcome = "rejected" /\ closed
            THEN Ret("logger.log", 0, "unhandled", <<>>) ELSE ret
  /\ UNCHANGED <<pools, frozen, mode, PendingConnections, closed, listeners, down, logger, calls>>

(***************************************************************************)
(* set.warnings(messages)                                                  *)
(***************************************************************************)
\* the values a caller passes: a string, an array, anything else; an element
\* of an array is a string or NotAString (a number)
NotAString == "123"
Texts == {"w1", "w2"}
Text(t) == [type |-> "string", items |-> <<t>>]
Arr(items) == [type |-> "array", items |-> items]
Other == [type |-> "other", items |-> <<>>]
MaxMessages == 2
Arrays == {Arr(items) : items \in UNION {[1..n -> Texts \cup {NotAString}] : n \in 0..MaxMessages}}
Messages == {Text(t) : t \in Texts} \cup Arrays \cup {Other}

\* the warning set.warnings pushes for a string
SET == "SET"
UserWarning(t) == [kind |-> SET, name |-> <<t>>]

\* the elements forEach reaches before it throws: those in front of the first
\* element that is not a string
RECURSIVE Pushed(_)
Pushed(items) ==
  IF items = <<>> \/ Head(items) = NotAString THEN <<>>
  ELSE <<UserWarning(Head(items))>> \o Pushed(Tail(items))

\* set.warnings(string) as `this.warnings = [messages]`
SetWarningsAssigns(messages) ==
  /\ UNCHANGED <<pools, frozen, mode, PendingConnections, closed, listeners, down, logger, writes, calls>>
  /\ IF closed
     THEN /\ ret' = Ret("set.warnings", 0, "TypeError", <<>>)
          /\ UNCHANGED warnings
     ELSE IF messages.type = "string"
     THEN /\ warnings' = <<UserWarning(messages.items[1])>>
          /\ ret' = Ret("set.warnings", 0, "ok", <<>>)
     ELSE IF messages.type = "array" /\ messages.items = <<>>
     THEN /\ warnings' = <<>>
          /\ ret' = Ret("set.warnings", 0, "ok", <<>>)
     ELSE IF messages.type = "array"
     THEN /\ warnings' = warnings \o Pushed(messages.items)
          /\ ret' = Ret("set.warnings", 0,
                        IF Len(Pushed(messages.items)) < Len(messages.items)
                        THEN "invalid" ELSE "ok", <<>>)
     ELSE /\ ret' = Ret("set.warnings", 0, "invalid", <<>>)
          /\ UNCHANGED warnings

\* set.warnings(messages): this.set is null on a closed cluster
SetWarnings(messages) ==
  /\ UNCHANGED <<pools, frozen, mode, PendingConnections, closed, listeners, down, logger, writes, calls>>
  /\ IF closed
     THEN /\ ret' = Ret("set.warnings", 0, "TypeError", <<>>)
          /\ UNCHANGED warnings
     ELSE IF messages.type = "string"
     THEN /\ warnings' = Append(warnings, UserWarning(messages.items[1]))
          /\ ret' = Ret("set.warnings", 0, "ok", <<>>)
     ELSE IF messages.type = "array" /\ messages.items = <<>>
     THEN /\ warnings' = <<>>
          /\ ret' = Ret("set.warnings", 0, "ok", <<>>)
     ELSE IF messages.type = "array"
     THEN /\ warnings' = warnings \o Pushed(messages.items)
          /\ ret' = Ret("set.warnings", 0,
                        IF Len(Pushed(messages.items)) < Len(messages.items)
                        THEN "invalid" ELSE "ok", <<>>)
     ELSE /\ ret' = Ret("set.warnings", 0, "invalid", <<>>)
          /\ UNCHANGED warnings

(***************************************************************************)
(* The cluster under its callers, its pools and its connections.           *)
(***************************************************************************)
Outcomes == {"fulfilled", "rejected"}
ResultLists(max) == UNION {[1..n -> Outcomes] : n \in 1..max}
\* no remove, closePendingConnections or shutdown call is in flight
Idle == FreeCalls = CallIds

\* the bounds: a pool is registered at most MaxAdds times, and an event is
\* emitted only while its warnings and connections fit
AddRoom(p) == closed \/ AddConflict(p) \/ listeners[p] < MaxAdds
EmitRoom(p, kind) ==
  \/ closed
  \/ /\ Len(warnings) + listeners[p] <= MaxWarnings
     /\ kind = CLOSE_FAIL => Len(PendingConnections) + listeners[p] <= MaxPending

(***************************************************************************)
(* Spec: callers add, freeze, unfreeze, select and set the mode at any     *)
(* time, pools emit CLOSE_FAIL at any time, and the administrative calls   *)
(* (remove, closePendingConnections, shutdown) are issued one at a time.   *)
(***************************************************************************)
Next ==
  \/ \E p \in PoolIds : AddRoom(p) /\ Add(p)
  \/ AddInvalid
  \/ \E pat \in Patterns : Freeze(pat)
  \/ \E pat \in Patterns : Unfreeze(pat)
  \/ \E pat \in Patterns \cup {Undef} : GetPool(pat)
  \/ \E pat \in Patterns \cup {Undef} : Request(pat)
  \/ \E type \in {ORDER_MODE, RANDOM_MODE, "other"} : SetMode(type)
  \/ HasLogger
  \/ Idle /\ \E pat \in Patterns : Remove(pat)
  \/ \E c \in CallIds, results \in ResultLists(MaxAdds * MaxPools) : SettleShutdown(c, results)
  \/ Idle /\ \E force \in Forces : ClosePendingConnections(force)
  \/ \E c \in CallIds, results \in ResultLists(MaxPending) : SettleClose(c, results)
  \/ Idle /\ \E force \in Forces : Shutdown(force)
  \/ \E p \in PoolIds, con \in ConnIds : EmitRoom(p, CLOSE_FAIL) /\ Emit(p, CLOSE_FAIL, con)

Spec == Init /\ [][Next]_vars

(***************************************************************************)
(* SpecReAdd: the registry alone (no events, no closePendingConnections,   *)
(* no shutdown), with callers that may hand add() a pool object it has     *)
(* registered before.                                                      *)
(***************************************************************************)
RECURSIVE Registrations(_)
Registrations(n) == IF n = 0 THEN 0 ELSE listeners[n] + Registrations(n - 1)

\* the bound: add() registers at most MaxAdds * MaxPools times in all
ReAddRoom(p) == AddConflict(p) \/ Registrations(MaxPools) < MaxAdds * MaxPools

NextReAdd ==
  \/ \E p \in PoolIds : ReAddRoom(p) /\ Add(p)
  \/ \E pat \in Patterns : Freeze(pat)
  \/ \E pat \in Patterns : Unfreeze(pat)
  \/ \E pat \in Patterns \cup {Undef} : GetPool(pat)
  \/ \E pat \in Patterns \cup {Undef} : Request(pat)
  \/ \E type \in {ORDER_MODE, RANDOM_MODE} : SetMode(type)
  \/ Idle /\ \E pat \in Patterns : Remove(pat)
  \/ \E c \in CallIds, results \in ResultLists(MaxAdds * MaxPools) : SettleShutdown(c, results)

SpecReAdd == Init /\ [][NextReAdd]_vars

(***************************************************************************)
(* SpecClose: the pending store alone.  Pools are added and emit           *)
(* CLOSE_FAIL with one of several connections, also while a                *)
(* closePendingConnections call awaits; the calls are issued one at a time.*)
(***************************************************************************)
EventRoom(p) == Len(warnings) + listeners[p] <= MaxEvents

NextClose ==
  \/ \E p \in PoolIds : AddRoom(p) /\ Add(p)
  \/ \E p \in PoolIds, con \in EventConns : EventRoom(p) /\ Emit(p, CLOSE_FAIL, con)
  \/ Idle /\ \E force \in Forces : ClosePendingConnections(force)
  \/ \E c \in CallIds, results \in ResultLists(MaxEvents) : SettleClose(c, results)

SpecClose == Init /\ [][NextClose]_vars

(***************************************************************************)
(* SpecEvents: the handlers alone.  Pools are added (also a pool that was  *)
(* added before), a logger is set, pools emit each of the ten failure      *)
(* kinds, and the writes of the logger resolve or reject.                  *)
(***************************************************************************)
NextEvents ==
  \/ \E p \in PoolIds : ReAddRoom(p) /\ Add(p)
  \/ \E instance \in {"logger", "other"} : SetLogger(instance)
  \/ \E p \in PoolIds, kind \in Kinds : EventRoom(p) /\ Emit(p, kind, 1)
  \/ \E outcome \in Outcomes : LogSettle(outcome)

SpecEvents == Init /\ [][NextEvents]_vars

(***************************************************************************)
(* SpecOverlap: callers that do not wait.  shutdown is called while        *)
(* earlier shutdown calls still await their pools or connections; pools    *)
(* are added and emit CLOSE_FAIL in between.                               *)
(***************************************************************************)
NextOverlap ==
  \/ \E p \in PoolIds : AddRoom(p) /\ Add(p)
  \/ \E p \in PoolIds, con \in ConnIds : EmitRoom(p, CLOSE_FAIL) /\ Emit(p, CLOSE_FAIL, con)
  \/ \E force \in Forces : Shutdown(force)
  \/ \E c \in CallIds, results \in ResultLists(MaxAdds * MaxPools) : SettleShutdown(c, results)
  \/ \E c \in CallIds, results \in ResultLists(MaxPending) : SettleClose(c, results)

SpecOverlap == Init /\ [][NextOverlap]_vars

\* the same callers with an observer on the pools
SpecOverlapSeen == InitWatched /\ [][NextOverlap]_vars

(***************************************************************************)
(* SpecLate: pools that outlive the cluster.  Pools emit their three       *)
(* events and logger writes settle at any time, also after a shutdown      *)
(* (one call at a time) has closed the cluster.                            *)
(***************************************************************************)
NextLate ==
  \/ \E p \in PoolIds : AddRoom(p) /\ Add(p)
  \/ \E instance \in {"logger", "other"} : SetLogger(instance)
  \/ \E p \in PoolIds, kind \in Kinds, con \in ConnIds : EmitRoom(p, kind) /\ Emit(p, kind, con)
  \/ \E outcome \in Outcomes : LogSettle(outcome)
  \/ Idle /\ \E pat \in NamePatterns : Remove(pat)
  \/ Idle /\ \E force \in Forces : Shutdown(force)
  \/ \E c \in CallIds, results \in ResultLists(MaxAdds * MaxPools) : SettleShutdown(c, results)
  \/ \E c \in CallIds, results \in ResultLists(MaxPending) : SettleClose(c, results)

SpecLate == Init /\ [][NextLate]_vars

(***************************************************************************)
(* SpecWarn: the warnings list.  Callers set warnings, pools emit          *)
(* CLOSE_FAIL, and remove, request, closePendingConnections and shutdown   *)
(* run one at a time in between.                                           *)
(***************************************************************************)
SetRoom(messages) == closed \/ Len(warnings) + Len(messages.items) <= MaxWarnings + 1
All == Str(<<"*">>)

NextWarn ==
  \/ \E p \in PoolIds : AddRoom(p) /\ Add(p)
  \/ \E messages \in Messages : SetRoom(messages) /\ SetWarnings(messages)
  \/ \E p \in PoolIds : EmitRoom(p, CLOSE_FAIL) /\ Emit(p, CLOSE_FAIL, 1)
  \/ Freeze(All)
  \/ Unfreeze(All)
  \/ Request(Undef)
  \/ Idle /\ Remove(All)
  \/ \E c \in CallIds, results \in ResultLists(MaxAdds * MaxPools) : SettleShutdown(c, results)
  \/ Idle /\ \E force \in Forces : ClosePendingConnections(force)
  \/ \E c \in CallIds, results \in ResultLists(MaxPending) : SettleClose(c, results)
  \/ Idle /\ \E force \in Forces : Shutdown(force)

SpecWarn == Init /\ [][NextWarn]_vars

(***************************************************************************)
(* SpecSeen: the registry with an observer on the pools.  Each pool object *)
(* is added once; freeze, unfreeze, get.pool, request and remove calls     *)
(* come at any time, remove calls also while others await.                 *)
(***************************************************************************)
NextSeen ==
  \/ \E p \in PoolIds : AddRoom(p) /\ Add(p)
  \/ \E pat \in NamePatterns \cup {All} : Freeze(pat)
  \/ \E pat \in NamePatterns \cup {All} : Unfreeze(pat)
  \/ \E pat \in {Undef, All} : GetPool(pat)
  \/ \E pat \in {Undef, All} : Request(pat)
  \/ \E pat \in NamePatterns \cup {All} : Remove(pat)
  \/ \E c \in CallIds, results \in ResultLists(MaxAdds * MaxPools) : SettleShutdown(c, results)

SpecSeen == InitWatched /\ [][NextSeen]_vars

(***************************************************************************)
(* SpecRotate: selection alone.  Pools are added once each, the mode is    *)
(* set, and get.pool and request are called with and without a pattern.    *)
(***************************************************************************)
CallPatterns == (Patterns \ {BadPat}) \cup {Undef}

NextRotate ==
  \/ \E p \in PoolIds : AddRoom(p) /\ Add(p)
  \/ \E type \in {ORDER_MODE, RANDOM_MODE} : SetMode(type)
  \/ \E pat \in CallPatterns : GetPool(pat)
  \/ \E pat \in CallPatterns : Request(pat)

SpecRotate == Init /\ [][NextRotate]_vars

(***************************************************************************)
(* SpecCloseOverlap: the pending store under callers that do not wait.     *)
(* closePendingConnections is called while earlier calls await, and pools  *)
(* emit CLOSE_FAIL with one of several connections in between.             *)
(***************************************************************************)
NextCloseOverlap ==
  \/ \E p \in PoolIds : AddRoom(p) /\ Add(p)
  \/ \E p \in PoolIds, con \in EventConns : EventRoom(p) /\ Emit(p, CLOSE_FAIL, con)
  \/ \E force \in Forces : ClosePendingConnections(force)
  \/ \E c \in CallIds, results \in ResultLists(MaxEvents) : SettleClose(c, results)

SpecCloseOverlap == Init /\ [][NextCloseOverlap]_vars

(***************************************************************************)
(* What the claims below are stated with.                                  *)
(***************************************************************************)
\* the registry: the active list followed by the frozen list
Registry == pools \o frozen

UniqueNames(list) ==
  \A i, j \in 1..Len(list) : i # j => PoolName(list[i]) # PoolName(list[j])

NoDuplicates(list) == \A i, j \in 1..Len(list) : i # j => list[i] # list[j]

\* a pool of the registry carries the name of pool p
NameTaken(p) == \E i \in 1..Len(Registry) : PoolName(Registry[i]) = PoolName(p)

StringsAndRegexes == Patterns \ {BadPat}

\* the pools k consecutive get.pool(pat) calls return in ORDER_MODE, from the
\* active list `list`, with no other operation in between
RECURSIVE Returned(_, _, _)
Returned(list, pat, k) ==
  IF k = 0 THEN <<>>
  ELSE LET r == getPool(list, ORDER_MODE, pat, 0)
       IN <<r.pool>> \o Returned(r.pools, pat, k - 1)

\* this step is get.pool(pat) or request(pat) returning (delegating to) a pool
Selects(pat) ==
  /\ ~closed
  /\ GetPool(pat) \/ Request(pat)
  /\ ret'.out \in {"ok", "delegated"}

\* this step settles the plain remove call c, with the outcomes `results`
RemoveSettles(c, results) ==
  /\ ~closed
  /\ ~calls[c].shutdown
  /\ SettleShutdown(c, results)

(***************************************************************************)
(* C1: in every reachable state no two pools of active and frozen have the *)
(* same name, and add(pool) with the name of a pool that is already active *)
(* or frozen throws and leaves the active list, the frozen list, the       *)
(* pending store and the warnings unchanged.                               *)
(***************************************************************************)
C1_UniqueNames ==
  [][/\ UniqueNames(pools' \o frozen')
     /\ \A p \in PoolIds :
          (~closed /\ NameTaken(p) /\ Add(p)) =>
             /\ ret'.out = "conflict"
             /\ UNCHANGED <<pools, frozen, PendingConnections, warnings>>]_vars

(***************************************************************************)
(* C2: in every reachable state no pool is in both the active and the      *)
(* frozen list, and no pool occurs twice in either list.                   *)
(***************************************************************************)
C2_OneListOnce == NoDuplicates(Registry)

(***************************************************************************)
(* C3: get.pool and request never return (delegate to) a pool that is in   *)
(* the frozen list at the time of the call, in either mode, and a name or  *)
(* pattern that matches frozen pools only fails with a not-found error.    *)
(***************************************************************************)
C3_NeverFrozen ==
  [][\A pat \in Patterns \cup {Undef} :
       /\ Selects(pat) => ~includes(frozen, ret'.pool)
       /\ ( /\ ~closed
            /\ pat \in StringsAndRegexes
            /\ match(pat, pools) = <<>>
            /\ match(pat, frozen) # <<>>
            /\ GetPool(pat) \/ Request(pat) ) => ret'.out = "notfound"]_vars

(***************************************************************************)
(* C4: in ORDER_MODE, with the active list P1..Pn, n consecutive get.pool()*)
(* calls without a name return P1, ..., Pn in that order, and the next     *)
(* call returns P1 again.                                                  *)
(***************************************************************************)
C4_RoundRobin ==
  (~closed /\ mode = ORDER_MODE /\ pools # <<>>) =>
     Returned(pools, Undef, Len(pools) + 1) = pools \o <<pools[1]>>

\* every pool is active in ORDER_MODE and get.pool has just returned a pool
\* and moved it to the tail
C4_Witness ==
  /\ ~closed
  /\ mode = ORDER_MODE
  /\ Len(pools) = MaxPools
  /\ ret = Ret("get.pool", pools[Len(pools)], "ok", <<>>)

(***************************************************************************)
(* C5: in ORDER_MODE, for a pattern that matches k >= 2 active pools, k    *)
(* consecutive get.pool(pattern) calls return the matched pools once each, *)
(* in their order in the active list, and the next call returns the first  *)
(* of them again.                                                          *)
(***************************************************************************)
C5_GroupRoundRobin ==
  \A pat \in StringsAndRegexes :
    LET matched == match(pat, pools) IN
      (~closed /\ mode = ORDER_MODE /\ Len(matched) >= 2) =>
         Returned(pools, pat, Len(matched) + 1) = matched \o <<matched[1]>>

(***************************************************************************)
(* C6: a rotating get.pool(pattern) / request(pattern) call in ORDER_MODE  *)
(* moves the selected pool, and nothing else, to the tail of the active    *)
(* list: the other active pools keep their relative order.                 *)
(***************************************************************************)
C6_OnlySelectedMoves ==
  [][\A pat \in StringsAndRegexes :
       (Selects(pat) /\ mode = ORDER_MODE /\ Len(match(pat, pools)) >= 2) =>
          pools' = Append(Without(pools, <<ret'.pool>>), ret'.pool)]_vars

(***************************************************************************)
(* C7: get.pool(name) / request(name) with the exact name of an active     *)
(* pool returns (delegates to) the pool of that name, whatever other pools *)
(* are registered and whatever the mode.                                   *)
(***************************************************************************)
C7_ExactName ==
  [][\A q \in PoolIds :
       ( /\ ~closed
         /\ includes(pools, q)
         /\ GetPool(Str(PoolName(q))) \/ Request(Str(PoolName(q))) ) =>
            /\ ret'.out \in {"ok", "delegated"}
            /\ PoolName(ret'.pool) = PoolName(q)]_vars

(***************************************************************************)
(* C8: a remove of which some shutdowns succeed and some fail removes      *)
(* every pool whose shutdown succeeded, keeps every pool whose shutdown    *)
(* failed in the list it was in, and rejects naming exactly the failing    *)
(* pools.  Stated of the registries whose names are unique, where C1 has   *)
(* no part in the outcome.                                                 *)
(***************************************************************************)
C8_PartialFailure ==
  [][\A c \in CallIds, results \in ResultLists(MaxAdds * MaxPools) :
       LET resolved == ItemsWith(calls[c].items, results, "fulfilled", 1)
           rejected == ItemsWith(calls[c].items, results, "rejected", 1)
       IN ( /\ UniqueNames(Registry)
            /\ RemoveSettles(c, results)
            /\ resolved # <<>>
            /\ rejected # <<>> ) =>
            /\ \A i \in 1..Len(resolved) :
                 ~includes(pools' \o frozen', resolved[i])
            /\ \A i \in 1..Len(rejected) :
                 /\ includes(pools, rejected[i]) => includes(pools', rejected[i])
                 /\ includes(frozen, rejected[i]) => includes(frozen', rejected[i])
            /\ ret' = Ret("remove", 0, "rejected", Names(rejected))]_vars

(***************************************************************************)
(* C9: when remove(pattern) resolves, no pool the pattern matched remains  *)
(* in the active list or in the frozen list.                               *)
(***************************************************************************)
C9_ResolvedMeansGone ==
  [][\A c \in CallIds, results \in ResultLists(MaxAdds * MaxPools) :
       (RemoveSettles(c, results) /\ ret'.out = "ok") =>
          \A i \in 1..Len(calls[c].items) :
             ~includes(pools' \o frozen', calls[c].items[i])]_vars

(***************************************************************************)
(* C10: remove(pattern) with a string or a RegExp that matches no active   *)
(* and no frozen pool resolves, calls no pool's shutdown, and leaves the   *)
(* active list, the frozen list, the pending store and the warnings        *)
(* unchanged.                                                              *)
(***************************************************************************)
C10_RemoveNothing ==
  [][\A pat \in StringsAndRegexes :
       (~closed /\ match(pat, Registry) = <<>> /\ Remove(pat)) =>
          /\ ret' = Ret("remove", 0, "ok", <<>>)
          /\ UNCHANGED <<calls, pools, frozen, PendingConnections, warnings>>]_vars

\* remove resolved on a cluster that holds every pool it ever registered in
\* its active list, a warning and a pending connection: nothing was removed
C10_Witness ==
  /\ ~closed
  /\ ret = Ret("remove", 0, "ok", <<>>)
  /\ Len(pools) = MaxPools
  /\ frozen = <<>>
  /\ warnings # <<>>
  /\ PendingConnections # <<>>

\* this step settles the closePendingConnections call c (not one shutdown
\* issued) with the outcomes `results`
CloseSettles(c, results) ==
  /\ ~closed
  /\ ~calls[c].shutdown
  /\ SettleClose(c, results)

\* nothing was pushed to the pending store since call c read it
Undisturbed(c) == PendingConnections = calls[c].items

\* what a call that is not forced does when it settles undisturbed: the
\* connections whose close failed stay, in order, and it rejects with the
\* error of the first of them, or resolves if there is none
SettlesUnforced(c, results) ==
  LET failed == ItemsWith(calls[c].items, results, "rejected", 1) IN
    /\ PendingConnections' = failed
    /\ ret' = IF failed = <<>>
              THEN Ret("closePendingConnections", 0, "ok", <<>>)
              ELSE Ret("closePendingConnections", failed[1], "rejected", <<>>)

\* a call on an empty store resolves at once and creates no promise
ResolvesAtOnce ==
  /\ ret' = Ret("closePendingConnections", 0, "ok", <<>>)
  /\ UNCHANGED <<PendingConnections, calls>>

(***************************************************************************)
(* C11: a closePendingConnections() call that is not forced and runs       *)
(* undisturbed leaves in the pending store exactly the connections whose   *)
(* close failed, in their order; it resolves if the store was empty or     *)
(* every close succeeded and otherwise rejects with the close error of the *)
(* first failing connection.  (Every call does, so a repeated call with    *)
(* the same failures rejects again and keeps the store, and a connection   *)
(* whose close then succeeds is the one removed.)                          *)
(***************************************************************************)
C11_KeepsFailed ==
  [][/\ (~closed /\ PendingConnections = <<>> /\ ClosePendingConnections("false"))
          => ResolvesAtOnce
     /\ \A c \in CallIds, results \in ResultLists(MaxEvents) :
          (CloseSettles(c, results) /\ ~calls[c].force /\ Undisturbed(c))
             => SettlesUnforced(c, results)]_vars

\* two events were handled, the call that followed closed the first
\* connection and rejected with the error of the second, which is kept
C11_Witness ==
  /\ ~closed
  /\ Idle
  /\ Len(warnings) = 2
  /\ PendingConnections = <<2>>
  /\ ret = Ret("closePendingConnections", 2, "rejected", <<>>)

(***************************************************************************)
(* C12: closePendingConnections(true) always resolves and leaves the       *)
(* pending store empty, whatever the outcomes of the close attempts, and   *)
(* resolves at once when the store is empty already.                       *)
(***************************************************************************)
C12_ForceEmpties ==
  [][/\ (~closed /\ PendingConnections = <<>> /\ ClosePendingConnections("true"))
          => ResolvesAtOnce
     /\ (~closed /\ PendingConnections # <<>> /\ ClosePendingConnections("true"))
          => \E c \in CallIds : calls'[c] = Call("close", FALSE, TRUE, PendingConnections)
     /\ \A c \in CallIds, results \in ResultLists(MaxEvents) :
          (CloseSettles(c, results) /\ calls[c].force) =>
             /\ PendingConnections' = <<>>
             /\ ret' = Ret("closePendingConnections", 0, "ok", <<>>)]_vars

\* a forced call awaits the closes of two connections
C12_Witness ==
  /\ ~closed
  /\ \E c \in CallIds :
       /\ calls[c].kind = "close"
       /\ calls[c].force
       /\ ~calls[c].shutdown
       /\ Len(calls[c].items) = 2

(***************************************************************************)
(* C13: closePendingConnections with a force that is not a boolean (a      *)
(* non-empty string) does what closePendingConnections(false) does: the    *)
(* connections whose close fails are kept and the call rejects; the store  *)
(* is never cleared whatever the outcomes.                                 *)
(***************************************************************************)
C13_NonBooleanForce ==
  [][\A force \in Forces :
       (~isBool(force) /\ ~closed /\ ClosePendingConnections(force)) =>
          /\ ClosePendingConnections("false")
          /\ \A c \in CallIds : calls'[c].kind = "close" => ~calls'[c].force]_vars

\* a call that was not forced rejected and kept both connections of the store
C13_Witness ==
  /\ ~closed
  /\ Idle
  /\ Len(PendingConnections) = 2
  /\ ret = Ret("closePendingConnections", PendingConnections[1], "rejected", <<>>)

AllFulfilled(results) == \A i \in 1..Len(results) : results[i] = "fulfilled"

\* the cluster is as the step found it
Untouched ==
  UNCHANGED <<pools, frozen, mode, warnings, PendingConnections, closed, listeners, down,
              logger, writes, calls>>

(***************************************************************************)
(* C14: after a shutdown has resolved, every add throws and every remove,  *)
(* request, shutdown and closePendingConnections rejects with the error of *)
(* the terminal state, and has, get and set are null (a use of them is a   *)
(* TypeError).                                                             *)
(***************************************************************************)
C14_ClosedRefuses ==
  [][closed =>
       /\ \A p \in PoolIds : Add(p) => (ret' = Ret("add", 0, "terminal", <<>>) /\ Untouched)
       /\ AddInvalid => (ret' = Ret("add", 0, "terminal", <<>>) /\ Untouched)
       /\ \A pat \in Patterns \cup {Undef} :
            /\ Remove(pat) => (ret' = Ret("remove", 0, "terminal", <<>>) /\ Untouched)
            /\ Request(pat) => (ret' = Ret("request", 0, "terminal", <<>>) /\ Untouched)
            /\ GetPool(pat) => (ret' = Ret("get.pool", 0, "TypeError", <<>>) /\ Untouched)
       /\ \A force \in Forces :
            /\ Shutdown(force) => (ret' = Ret("shutdown", 0, "terminal", <<>>) /\ Untouched)
            /\ ClosePendingConnections(force) =>
                 (ret' = Ret("closePendingConnections", 0, "terminal", <<>>) /\ Untouched)
       /\ HasLogger => (ret' = Ret("has.logger", 0, "TypeError", <<>>) /\ Untouched)
       /\ \A type \in {ORDER_MODE, RANDOM_MODE} :
            SetMode(type) => (ret' = Ret("set.mode", 0, "TypeError", <<>>) /\ Untouched)]_vars

\* a pool was added to the cluster after its shutdown resolved, and add threw
C14_Witness ==
  /\ closed
  /\ ret = Ret("add", 0, "terminal", <<>>)
  /\ \E p \in PoolIds : listeners[p] > 0

(***************************************************************************)
(* C15: the cluster goes from Live to Closed only in a shutdown call whose *)
(* remove('*') and whose closePendingConnections(force) both resolved; no  *)
(* other step closes it, and a Closed cluster never is Live again.         *)
(***************************************************************************)
\* this step is the last of a shutdown: there was no pool and no pending
\* connection, or remove('*') resolved with nothing pending to close, or
\* closePendingConnections(force) resolved
ShutdownCompletes ==
  /\ ret' = Ret("shutdown", 0, "ok", <<>>)
  /\ \/ /\ Registry = <<>>
        /\ PendingConnections = <<>>
        /\ \E force \in Forces : Shutdown(force)
     \/ \E c \in CallIds, results \in ResultLists(MaxAdds * MaxPools) :
          /\ calls[c].shutdown
          /\ \/ /\ SettleShutdown(c, results)
                /\ AllFulfilled(results)
                /\ PendingConnections = <<>>
             \/ /\ SettleClose(c, results)
                /\ calls[c].force \/ AllFulfilled(results)

\* this step starts the closePendingConnections of a shutdown: remove('*')
\* matched nothing or every shutdown it awaited resolved
RemoveAllResolved ==
  \/ Registry = <<>> /\ \E force \in Forces : Shutdown(force)
  \/ \E c \in CallIds, results \in ResultLists(MaxAdds * MaxPools) :
       /\ calls[c].shutdown
       /\ SettleShutdown(c, results)
       /\ AllFulfilled(results)

C15_ClosedOnlyByShutdown ==
  [][/\ closed => closed'
     /\ (~closed /\ closed') => ShutdownCompletes
     /\ \A c \in CallIds :
          (calls'[c].kind = "close" /\ calls'[c].shutdown /\ calls'[c] # calls[c])
             => RemoveAllResolved]_vars

\* a shutdown has closed a cluster that had a pool
C15_Witness ==
  /\ closed
  /\ ret = Ret("shutdown", 0, "ok", <<>>)
  /\ \E p \in PoolIds : listeners[p] > 0

(***************************************************************************)
(* C16: when remove('*') fails during shutdown, shutdown rejects with a    *)
(* ShutdownError carrying the message of remove's error (the names of the  *)
(* failing pools), the cluster stays Live, the pools whose shutdown        *)
(* succeeded are removed and the failing ones stay in their lists; when    *)
(* closePendingConnections fails, shutdown rejects with a ShutdownError    *)
(* carrying the first close error, the cluster stays Live and the          *)
(* connections that failed stay in the store.  Stated of the registries    *)
(* whose names are unique.                                                 *)
(***************************************************************************)
C16_FailedShutdown ==
  [][\A c \in CallIds, results \in ResultLists(MaxAdds * MaxPools) :
       LET resolved == ItemsWith(calls[c].items, results, "fulfilled", 1)
           rejected == ItemsWith(calls[c].items, results, "rejected", 1)
       IN /\ ( /\ ~closed
               /\ UniqueNames(Registry)
               /\ calls[c].shutdown
               /\ SettleShutdown(c, results)
               /\ rejected # <<>> ) =>
                 /\ ret' = Ret("shutdown", 0, "ShutdownError", Names(rejected))
                 /\ ~closed'
                 /\ \A i \in 1..Len(resolved) :
                      ~includes(pools' \o frozen', resolved[i])
                 /\ \A i \in 1..Len(rejected) :
                      /\ includes(pools, rejected[i]) => includes(pools', rejected[i])
                      /\ includes(frozen, rejected[i]) => includes(frozen', rejected[i])
          /\ ( /\ ~closed
               /\ calls[c].shutdown
               /\ ~calls[c].force
               /\ Undisturbed(c)
               /\ SettleClose(c, results)
               /\ rejected # <<>> ) =>
                 /\ ret' = Ret("shutdown", rejected[1], "ShutdownError", <<>>)
                 /\ ~closed'
                 /\ PendingConnections' = rejected]_vars

(***************************************************************************)
(* C17: shutdown hands its force argument to closePendingConnections: when *)
(* every pool shutdown succeeded and a pending connection fails to close,  *)
(* shutdown() rejects and leaves the cluster Live, and shutdown(true)      *)
(* resolves and closes it.                                                 *)
(***************************************************************************)
C17_ForcePassedOn ==
  [][(~closed /\ calls' # calls) =>
     /\ \A force \in {"true", "false"}, c \in CallIds :
          (Shutdown(force) /\ calls'[c] # calls[c])
             => calls'[c].force = (force = "true")
     /\ \A c \in CallIds, results \in ResultLists(MaxAdds * MaxPools) :
          /\ ( /\ ~closed
               /\ calls[c].shutdown
               /\ SettleShutdown(c, results)
               /\ AllFulfilled(results)
               /\ PendingConnections # <<>> ) =>
                 calls'[c] = Call("close", TRUE, calls[c].force, PendingConnections)
          /\ ( /\ ~closed
               /\ calls[c].shutdown
               /\ Undisturbed(c)
               /\ SettleClose(c, results)
               /\ ~AllFulfilled(results) ) =>
                 IF calls[c].force
                 THEN closed' /\ ret' = Ret("shutdown", 0, "ok", <<>>)
                 ELSE ~closed' /\ ret'.out = "ShutdownError"]_vars

\* shutdown(true) has shut every pool down and awaits the close of a pending
\* connection
C17_Witness ==
  /\ ~closed
  /\ pools = <<>>
  /\ \E p \in PoolIds : listeners[p] > 0
  /\ \E c \in CallIds :
       /\ calls[c].kind = "close"
       /\ calls[c].shutdown
       /\ calls[c].force
       /\ calls[c].items # <<>>

\* this step is pool p, a pool of the registry of a live cluster, emitting kind
Emits(p, kind, con) ==
  /\ ~closed
  /\ includes(Registry, p)
  /\ Emit(p, kind, con)

(***************************************************************************)
(* C18: with a logger whose log always rejects, one failure event of a     *)
(* registered pool gives exactly two warnings: the warning of the failure  *)
(* at the event, and the warning of the logger's failure when its promise  *)
(* rejects; the rejection reaches no caller.                               *)
(***************************************************************************)
C18_TwoWarnings ==
  [][/\ \A p \in PoolIds, kind \in Kinds :
          (Emits(p, kind, 1) /\ logger # "none") =>
             /\ warnings' = Append(warnings, Warning(kind, p))
             /\ writes' = writes + 1
             /\ ret' = ret
     /\ (~closed /\ LogSettle("rejected")) =>
             /\ warnings' = Append(warnings, LogWarning)
             /\ ret' = ret]_vars

(***************************************************************************)
(* C19: for each of the ten failure kinds, one event of a pool registered  *)
(* in a live cluster appends exactly one warning, which names the pool,    *)
(* with or without a logger, and calls the logger once if there is one and *)
(* not at all otherwise.                                                   *)
(***************************************************************************)
C19_OneWarningPerEvent ==
  [][\A p \in PoolIds, kind \in Kinds :
       Emits(p, kind, 1) =>
          /\ warnings' = Append(warnings, Warning(kind, p))
          /\ writes' = IF logger # "none" THEN writes + 1 ELSE writes]_vars

(***************************************************************************)
(* C20: each CLOSE_FAIL event of a registered pool appends the connection  *)
(* it carries to the pending store exactly once: the store grows by one    *)
(* per event, also for a connection it holds already.                      *)
(***************************************************************************)
C20_OneConnectionPerEvent ==
  [][\A p \in PoolIds, con \in EventConns :
       Emits(p, CLOSE_FAIL, con) =>
          PendingConnections' = Append(PendingConnections, con)]_vars

\* the pools of `list` whose name the pattern matches, and the others
Matching(pat, list) == SelectSeq(list, LAMBDA q : Test(toRegex(pat), PoolName(q)))
Others(pat, list) == SelectSeq(list, LAMBDA q : ~Test(toRegex(pat), PoolName(q)))

(***************************************************************************)
(* C21: freeze(pattern) moves exactly the active pools the pattern matches *)
(* to the end of the frozen list, in their order, and leaves the order of  *)
(* the other active pools and of the pools frozen before; when no active   *)
(* pool matches (a frozen one may) it throws not-found and changes nothing.*)
(***************************************************************************)
C21_FreezeMoves ==
  [][\A pat \in StringsAndRegexes :
       (ret'.op = "freeze" /\ ~closed /\ Freeze(pat)) =>
          IF Matching(pat, pools) = <<>>
          THEN ret' = Ret("freeze", 0, "notfound", <<>>) /\ Untouched
          ELSE /\ ret' = Ret("freeze", 0, "ok", <<>>)
               /\ pools' = Others(pat, pools)
               /\ frozen' = frozen \o Matching(pat, pools)]_vars

\* a freeze has put a pool behind the pool frozen before and left one active
C21_Witness ==
  /\ ret = Ret("freeze", 0, "ok", <<>>)
  /\ Len(frozen) = 2
  /\ Len(pools) = 1
  /\ PoolName(frozen[1]) # PoolName(frozen[2])

(***************************************************************************)
(* C22: unfreeze(pattern) moves exactly the frozen pools the pattern       *)
(* matches to the end of the active list, in their order, and leaves the   *)
(* order of the other frozen and active pools; when no frozen pool matches *)
(* (an active one may) it throws not-found and changes nothing.            *)
(***************************************************************************)
C22_UnfreezeMoves ==
  [][\A pat \in StringsAndRegexes :
       (ret'.op = "unfreeze" /\ ~closed /\ Unfreeze(pat)) =>
          IF Matching(pat, frozen) = <<>>
          THEN ret' = Ret("unfreeze", 0, "notfound", <<>>) /\ Untouched
          ELSE /\ ret' = Ret("unfreeze", 0, "ok", <<>>)
               /\ frozen' = Others(pat, frozen)
               /\ pools' = pools \o Matching(pat, frozen)]_vars

\* an unfreeze has put a pool behind an active pool and left one frozen
C22_Witness ==
  /\ ret = Ret("unfreeze", 0, "ok", <<>>)
  /\ Len(pools) = 2
  /\ Len(frozen) = 1
  /\ PoolName(pools[1]) # PoolName(pools[2])

(***************************************************************************)
(* C23: remove, freeze and unfreeze with a pattern that is neither a       *)
(* string nor a RegExp fail with the invalid-name error (remove rejects,   *)
(* freeze and unfreeze throw), call no pool's shutdown and leave the       *)
(* active list, the frozen list, the pending store and the warnings.       *)
(***************************************************************************)
C23_InvalidPattern ==
  [][~closed =>
       /\ Remove(BadPat) => (ret' = Ret("remove", 0, "invalid", <<>>) /\ Untouched)
       /\ Freeze(BadPat) => (ret' = Ret("freeze", 0, "invalid", <<>>) /\ Untouched)
       /\ Unfreeze(BadPat) => (ret' = Ret("unfreeze", 0, "invalid", <<>>) /\ Untouched)]_vars

\* remove rejected an invalid name on a cluster with an active and a frozen pool
C23_Witness ==
  /\ ret = Ret("remove", 0, "invalid", <<>>)
  /\ pools # <<>>
  /\ frozen # <<>>

(***************************************************************************)
(* C24: get.pool and request fail with not-found when the active list is   *)
(* empty and when a valid pattern matches no active pool; the active list  *)
(* keeps its order and no pool's request is invoked.                       *)
(***************************************************************************)
C24_NothingToSelect ==
  [][(ret'.op \in {"get.pool", "request"} /\ ~closed) =>
     \A pat \in Patterns \cup {Undef} :
       (/\ \/ pools = <<>>
           \/ pat \in StringsAndRegexes /\ Matching(pat, pools) = <<>>
        /\ GetPool(pat) \/ Request(pat))
       => /\ ret'.out = "notfound"
          /\ ret'.pool = 0
          /\ Untouched]_vars

\* request found no active pool for a pattern although pools are active
C24_Witness ==
  /\ ret = Ret("request", 0, "notfound", <<>>)
  /\ Len(pools) = 2
  /\ frozen # <<>>

(***************************************************************************)
(* C25: in Random mode get.pool and request return a member of the active  *)
(* list, of the pools the pattern matches when one is given, and never     *)
(* change the order or the content of the active list.                     *)
(***************************************************************************)
C25_RandomMember ==
  [][(ret'.op \in {"get.pool", "request"} /\ ~closed /\ mode = RANDOM_MODE) =>
     \A pat \in Patterns \cup {Undef} :
       (GetPool(pat) \/ Request(pat))
       => /\ pools' = pools
          /\ ret'.out \in {"ok", "delegated"} =>
               /\ includes(pools, ret'.pool)
               /\ pat \in StringsAndRegexes =>
                    includes(Matching(pat, pools), ret'.pool)]_vars

\* Random mode returned the middle pool of a full active list
C25_Witness ==
  /\ mode = RANDOM_MODE
  /\ ret.op = "get.pool"
  /\ ret.out = "ok"
  /\ Len(pools) = MaxPools
  /\ ret.pool = pools[2]

(***************************************************************************)
(* C26: add(pool) with a valid pool throws the conflict error only if a    *)
(* pool of active + frozen has exactly the same name; in every other case, *)
(* also when a registered name differs from the new name but contains it,  *)
(* add succeeds and appends the pool at the tail of the active list.       *)
(***************************************************************************)
C26_ConflictOnlySameName ==
  [][\A p \in PoolIds :
       (ret'.op = "add" /\ ~closed /\ Add(p)) =>
          /\ ret'.out = "conflict" => NameTaken(p)
          /\ ~NameTaken(p) =>
               /\ ret' = Ret("add", 0, "ok", <<>>)
               /\ pools' = Append(pools, p)
               /\ frozen' = frozen]_vars

\* pool r is where the step found it: in the same list or in none
Stays(r) ==
  /\ includes(pools', r) <=> includes(pools, r)
  /\ includes(frozen', r) <=> includes(frozen, r)

(***************************************************************************)
(* C27: remove(name), freeze(name) and unfreeze(name) with the exact name  *)
(* of one registered pool shut down or move only that pool: every pool     *)
(* with a different name is neither shut down nor moved.                   *)
(***************************************************************************)
C27_OnlyTheNamedPool ==
  [][\A q \in PoolIds :
       (~closed /\ includes(Registry, q) /\ UniqueNames(Registry)) =>
          LET name == Str(PoolName(q))
              others == {r \in PoolIds : PoolName(r) # PoolName(q)}
          IN /\ (Freeze(name) \/ Unfreeze(name)) => \A r \in others : Stays(r)
             /\ Remove(name) =>
                  \A c \in CallIds : calls'[c] # calls[c] =>
                     \A i \in 1..Len(calls'[c].items) : calls'[c].items[i] \notin others]_vars

(***************************************************************************)
(* C28: after a shutdown has resolved, freeze and unfreeze also fail with  *)
(* the error of the terminal state and change no state, and no pool list   *)
(* (active or frozen) remains reachable or mutable.                        *)
(***************************************************************************)
C28_ClosedRefusesFreeze ==
  [][\A pat \in StringsAndRegexes :
       closed =>
          /\ Freeze(pat) => (ret' = Ret("freeze", 0, "terminal", <<>>) /\ Untouched)
          /\ Unfreeze(pat) => (ret' = Ret("unfreeze", 0, "terminal", <<>>) /\ Untouched)]_vars

\* the shutdown call c leaves the calls in flight in this step
ShutdownSettles(c) == calls[c].shutdown /\ calls'[c] = NoCall

(***************************************************************************)
(* C29: under any interleaving of overlapping shutdown calls at most one   *)
(* shutdown call resolves; every other one, started before or after the    *)
(* cluster closed, rejects.                                                *)
(***************************************************************************)
C29_OneShutdownResolves ==
  [][closed =>
       /\ \A force \in Forces :
            Shutdown(force) => ret' = Ret("shutdown", 0, "terminal", <<>>)
       /\ \A c \in CallIds :
            ShutdownSettles(c) =>
               ret'.op = "shutdown" /\ ret'.out \in {"ShutdownError", "terminal"}]_vars

(***************************************************************************)
(* C30: a failure event of a pool that was added never raises an exception *)
(* or an unhandled rejection out of the cluster's handler, in any state:   *)
(* also after the pool was removed, and also when the event, or the        *)
(* rejection of a logger write started earlier, arrives after the cluster  *)
(* has been shut down.                                                     *)
(***************************************************************************)
C30_HandlersNeverThrow ==
  [][/\ \A p \in PoolIds, kind \in Kinds, con \in ConnIds :
          Emit(p, kind, con) => ret'.out # "TypeError"
     /\ \A outcome \in Outcomes :
          LogSettle(outcome) => ret'.out # "unhandled"]_vars

\* list a is the front of list b
IsPrefix(a, b) == Len(a) <= Len(b) /\ SubSeq(b, 1, Len(a)) = a

(***************************************************************************)
(* C31: while the cluster is live the warnings list only grows by          *)
(* appending at its end: no operation other than set.warnings([]) removes, *)
(* replaces or reorders a warning already recorded (not remove, freeze,    *)
(* unfreeze, request, closePendingConnections or a failed shutdown).       *)
(***************************************************************************)
C31_WarningsAppendOnly ==
  [][(~closed /\ ~closed') =>
        \/ IsPrefix(warnings, warnings')
        \/ SetWarnings(Arr(<<>>))]_vars

\* a shutdown has failed on a cluster with two warnings, which are still there
C31_Witness ==
  /\ ~closed
  /\ ret.op = "shutdown"
  /\ ret.out = "ShutdownError"
  /\ Len(warnings) = 2
  /\ warnings[1] # warnings[2]

(***************************************************************************)
(* C32: during shutdown closePendingConnections is started only after      *)
(* remove('*') has resolved; if remove('*') rejects, that shutdown call    *)
(* attempts no close of a pending connection and the pending store is      *)
(* left as it was.                                                         *)
(***************************************************************************)
C32_CloseAfterRemove ==
  [][\A c \in CallIds :
       /\ (calls'[c] # calls[c] /\ calls'[c].kind = "close" /\ calls'[c].shutdown) =>
            \/ /\ calls[c].kind = "none"
               /\ Registry = <<>>
            \/ /\ calls[c].kind = "remove"
               /\ calls[c].shutdown
               /\ \E results \in ResultLists(MaxAdds * MaxPools) :
                    AllFulfilled(results) /\ SettleShutdown(c, results)
       /\ \A results \in ResultLists(MaxAdds * MaxPools) :
            (calls[c].shutdown /\ ~AllFulfilled(results) /\ SettleShutdown(c, results)) =>
               /\ calls' = [calls EXCEPT ![c] = NoCall]
               /\ PendingConnections' = PendingConnections
               /\ ~closed => ret'.out = "ShutdownError"]_vars

\* a shutdown has failed in remove('*') and the pending store is still filled
C32_Witness ==
  /\ ret.op = "shutdown"
  /\ ret.out = "ShutdownError"
  /\ ret.names # <<>>
  /\ PendingConnections # <<>>
  /\ FreeCalls = CallIds

(***************************************************************************)
(* C33: a pool whose shutdown has completed successfully as part of a      *)
(* remove or shutdown call is never afterwards returned by get.pool or     *)
(* used by request, under any sequence or interleaving of freeze,          *)
(* unfreeze, remove and request operations.                                *)
(***************************************************************************)
C33_ShutDownNeverReturned ==
  [][\A pat \in {Undef, All} :
       ((GetPool(pat) \/ Request(pat)) /\ ret'.out \in {"ok", "delegated"})
       => ret'.pool \notin down.pools]_vars

\* the connections the step takes out of the pending store
Dropped == {x \in EventConns : includes(PendingConnections, x) /\ ~includes(PendingConnections', x)}

(***************************************************************************)
(* C34: under any interleaving of non-force closePendingConnections calls  *)
(* with each other and with CLOSE_FAIL events that arrive while a call     *)
(* awaits, a connection leaves the pending store only if a close attempt   *)
(* on that same connection succeeded; connections whose close failed and   *)
(* connections added during the await stay in the store.                   *)
(***************************************************************************)
C34_OnlyClosedLeave ==
  [][\A c \in CallIds, results \in ResultLists(MaxEvents) :
       (/\ calls[c].kind = "close"
        /\ ~calls[c].force
        /\ NoDuplicates(PendingConnections)
        /\ SettleClose(c, results))
       => \A x \in Dropped :
            \E i \in 1..Len(results) : calls[c].items[i] = x /\ results[i] = "fulfilled"]_vars

(***************************************************************************)
(* C35: every connection closePendingConnections(true) drops from the      *)
(* pending store had a close attempt issued on it by that call: a          *)
(* connection a CLOSE_FAIL event inserts while the force call awaits is    *)
(* not discarded without a close attempt.                                  *)
(***************************************************************************)
C35_ForceDropsOnlyAttempted ==
  [][\A c \in CallIds, results \in ResultLists(MaxEvents) :
       (/\ calls[c].kind = "close"
        /\ calls[c].force
        /\ SettleClose(c, results))
       => \A x \in Dropped : includes(calls[c].items, x)]_vars

(***************************************************************************)
(* C36: provided every pool shutdown, connection close and logger write    *)
(* settles, every call to remove, closePendingConnections and shutdown     *)
(* resolves or rejects, under any interleaving with other operations and   *)
(* pool events (overlapping remove / shutdown calls and CLOSE_FAIL events  *)
(* arriving during the await included).  A call whose callback throws      *)
(* leaves flight with neither: its promise never settles.                  *)
(***************************************************************************)
C36_EveryCallSettles ==
  [][\A c \in CallIds :
       (calls[c].kind # "none" /\ calls'[c] = NoCall) => ret'.out # "never"]_vars

(***************************************************************************)
(* C37: when a shutdown call resolves, every pool ever registered in the   *)
(* cluster has had its shutdown complete successfully, and every           *)
(* connection ever placed in the pending store has been closed or          *)
(* force-dropped by closePendingConnections, even if an add call or a      *)
(* CLOSE_FAIL event interleaves with the shutdown in flight.               *)
(***************************************************************************)
C37_NothingLeftBehind ==
  [][(~closed /\ closed' /\ UniqueNames(Registry)) =>
        /\ \A p \in PoolIds : listeners[p] > 0 => p \in down'.pools
        /\ (\A c \in CallIds : calls[c].kind = "close" => calls'[c] = calls[c])
             => PendingConnections = <<>>]_vars

\* the outcomes of consecutive get.pool calls in ORDER_MODE, the i-th with
\* pats[i], from the active list `list`, with no other operation in between
RECURSIVE Run(_, _)
Run(list, pats) ==
  IF pats = <<>> THEN <<>>
  ELSE LET r == getPool(list, ORDER_MODE, Head(pats), 0)
       IN <<r>> \o Run(r.pools, Tail(pats))

\* the lists hold the same pools, each as often
SamePools(a, b) ==
  \A q \in PoolIds :
    Cardinality({i \in 1..Len(a) : a[i] = q}) = Cardinality({i \in 1..Len(b) : b[i] = q})

MaxRun == 4

(***************************************************************************)
(* C38: in Ordered mode with an unchanged set of active pools, under any   *)
(* interleaving of get.pool / request calls with and without a pattern:    *)
(* between two consecutive selections of the same pool by no-pattern calls *)
(* every other active pool is selected at least once, and between two      *)
(* consecutive selections of the same pool by calls with a pattern that    *)
(* matches at least two active pools every other active pool the pattern   *)
(* matches is selected at least once.                                      *)
(***************************************************************************)
C38_NobodySkipped ==
  (~closed /\ mode = ORDER_MODE) =>
    \A pats \in [1..MaxRun -> CallPatterns] :
      LET run == Run(pools, pats)
          sel(i) == IF run[i].out = "ok" THEN run[i].pool ELSE 0
          group(pat) == IF pat = Undef THEN pools ELSE match(pat, pools)
      IN \A i, j \in 1..MaxRun :
           (/\ i < j
            /\ pats[i] = pats[j]
            /\ sel(i) # 0
            /\ sel(i) = sel(j)
            /\ pats[i] # Undef => Len(match(pats[i], pools)) >= 2
            /\ \A k \in (i + 1)..(j - 1) : ~(pats[k] = pats[i] /\ sel(k) = sel(i)))
           => \A n \in 1..Len(group(pats[i])) :
                \/ group(pats[i])[n] = sel(i)
                \/ \E k \in (i + 1)..(j - 1) : sel(k) = group(pats[i])[n]

(***************************************************************************)
(* C39: get.pool / request never adds or removes a pool, in any mode: the  *)
(* active list after the call is a permutation of the list before, and the *)
(* frozen list, the pending store, the mode and (for get.pool) the         *)
(* warnings are unchanged.                                                 *)
(***************************************************************************)
C39_SelectionKeepsThePools ==
  [][(ret'.op \in {"get.pool", "request"} /\ ~closed) =>
        \A pat \in CallPatterns \cup {BadPat} :
          (GetPool(pat) \/ Request(pat)) =>
             /\ SamePools(pools', pools)
             /\ frozen' = frozen
             /\ PendingConnections' = PendingConnections
             /\ mode' = mode
             /\ GetPool(pat) => warnings' = warnings]_vars

\* an argument set.warnings must refuse: neither a string nor an array, or an
\* array with an element that is not a string
Invalid(messages) ==
  \/ messages.type = "other"
  \/ /\ messages.type = "array"
     /\ \E i \in 1..Len(messages.items) : messages.items[i] = NotAString

(***************************************************************************)
(* C40: set.warnings with an invalid argument (neither a string nor an     *)
(* array, or an array holding a non-string element at any position) throws *)
(* and leaves the warnings list exactly as it was.                         *)
(***************************************************************************)
C40_InvalidLeavesWarnings ==
  [][(ret'.op = "set.warnings" /\ ~closed) =>
        \A messages \in Messages :
          (Invalid(messages) /\ SetWarnings(messages)) =>
             /\ ret'.out = "invalid"
             /\ warnings' = warnings]_vars

====
